---- MODULE Spec2Model ----
(***************************************************************************)
(* Model of package logger (src/logger.go): a leveled logger that formats  *)
(* records in a pool of fixed-size buffers and hands them to a logwriter   *)
(* sink, with a background time cache and SIGHUP-triggered file rotation.  *)
(*                                                                         *)
(* LogSpec     log callers, a configuration caller (SetLevel and           *)
(*             SetTimeFormat), the ticker goroutine and the sink.          *)
(* RotateSpec  log callers, the signal loop, a direct caller of Reopen     *)
(*             and the sink.                                               *)
(* FormatSpec  one caller alone, with every level, threshold, cached time  *)
(*             and payload of the bounded input sets.                      *)
(* ThresholdSpec  FormatSpec with SetLevel called on valid and invalid     *)
(*             bytes.                                                      *)
(* LiveSpec    callers, configuration, ticker and one Reopen, with the     *)
(*             fairness the Go scheduler and sync.Mutex provide.           *)
(* BufferSpec  one buffer driven directly through append, clear and get.   *)
(***************************************************************************)
EXTENDS Integers, Sequences, FiniteSets, TLC

(***************************************************************************)
(* Program constants (src/logger.go:22-36).  The two sizes are scaled down *)
(* from 1000 buffers of 4096 bytes.                                        *)
(***************************************************************************)
FatalLevel == 0
ErrorLevel == 1
WarnLevel == 2
InfoLevel == 3
DebugLevel == 4
TraceLevel == 5

defaulBuffers == 1
defaulBufferSize == 12

(***************************************************************************)
(* Bounds of the model.                                                    *)
(***************************************************************************)
MaxCalls == 2
MaxTicks == 1
MaxOpens == 2
MaxPayload == 4
MaxData == 2
MaxOps == 8

NL == "\n"

\* a table whose entry for TraceLevel is the empty prefix
levelStrings_traceEmpty ==
    [l \in {FatalLevel, ErrorLevel, WarnLevel, InfoLevel, DebugLevel, TraceLevel} |->
        CASE l = FatalLevel -> <<"F", "A", "T", "A", "L", ":", " ">>
          [] l = ErrorLevel -> <<"E", "R", "R", "O", "R", ":", " ">>
          [] l = WarnLevel  -> <<"W", "A", "R", "N", "I", "N", "G", ":", " ">>
          [] l = InfoLevel  -> <<"I", "N", "F", "O", ":", " ">>
          [] l = DebugLevel -> <<"D", "E", "B", "U", "G", ":", " ">>
          [] l = TraceLevel -> <<>>]

\* src/logger.go:40-48: the prefix of each level, byte by byte.
levelStrings ==
    [l \in {FatalLevel, ErrorLevel, WarnLevel, InfoLevel, DebugLevel, TraceLevel} |->
        CASE l = FatalLevel -> <<"F", "A", "T", "A", "L", ":", " ">>
          [] l = ErrorLevel -> <<"E", "R", "R", "O", "R", ":", " ">>
          [] l = WarnLevel  -> <<"W", "A", "R", "N", "I", "N", "G", ":", " ">>
          [] l = InfoLevel  -> <<"I", "N", "F", "O", ":", " ">>
          [] l = DebugLevel -> <<"D", "E", "B", "U", "G", ":", " ">>
          [] l = TraceLevel -> <<"T", "R", "A", "C", "E", ":", " ">>]

Levels == DOMAIN levelStrings

\* The inputs of the concurrent specifications: call levels on both sides of
\* the thresholds, and for SetLevel(level byte) a level other than the default
\* and a byte that is no level.
CallLevels == {WarnLevel, InfoLevel, DebugLevel, TraceLevel}
RotateLevels == {InfoLevel, DebugLevel}
SetLevels == {DebugLevel, 255}

(***************************************************************************)
(* buffer (src/logger.go:50-72): buf, an array of defaulBufferSize bytes    *)
(* that starts zeroed, and pos.                                            *)
(***************************************************************************)
Nul == "nul"

ZeroBuffer == [buf |-> [i \in 1..defaulBufferSize |-> Nul], pos |-> 0]

clear(b) == [b EXCEPT !.pos = 0]

get(b) == SubSeq(b.buf, 1, b.pos)

\* an append that copies nothing when the data does not fit whole
append_dropsOverflow(b, d) ==
    IF b.pos + Len(d) > defaulBufferSize
    THEN b
    ELSE [buf |-> [i \in 1..defaulBufferSize |->
                      IF i > b.pos /\ i <= b.pos + Len(d) THEN d[i - b.pos] ELSE b.buf[i]],
          pos |-> b.pos + Len(d)]

append(b, d) ==
    LET l == IF b.pos + Len(d) > defaulBufferSize
             THEN defaulBufferSize - b.pos ELSE Len(d)
    IN  IF l > 0
        THEN [buf |-> [i \in 1..defaulBufferSize |->
                          IF i > b.pos /\ i <= b.pos + l THEN d[i - b.pos] ELSE b.buf[i]],
              pos |-> b.pos + l]
        ELSE b

(***************************************************************************)
(* time.Time.Format, reduced to layouts made of literal bytes and the      *)
(* field "S", which is replaced by the digit of the tick being formatted.  *)
(***************************************************************************)
Digits == <<"0", "1", "2", "3", "4", "5", "6", "7", "8", "9">>

Digit(n) == Digits[(n % 10) + 1]

Format(t, layout) == [i \in 1..Len(layout) |-> IF layout[i] = "S" THEN Digit(t) ELSE layout[i]]

\* New's layout "2006.01.02 15:04:05.00 " (one field and the trailing space),
\* the tests' layout without the trailing space, and the empty layout.
DefaultLayout == <<"S", " ">>
TestLayout == <<"S", "'">>
Layouts == {DefaultLayout, TestLayout, <<>>}

\* the layouts the concurrent specification passes to SetTimeFormat
SetLayouts == {TestLayout, <<>>}

(***************************************************************************)
(* Threads.  Callers call the six Log* entry points; Cfg calls SetLevel    *)
(* and SetTimeFormat; Tick is the updateTime goroutine; Sig is the         *)
(* signalLoop goroutine and Usr a direct caller of Reopen.                 *)
(***************************************************************************)
Callers == {"c1", "c2"}
Cfg == "cfg"
Tick == "tick"
Sig == "sig"
Usr == "usr"
Reopeners == {Sig, Usr}
Free == "free"
\* what a caller holds before it has received an index, and the level and
\* threshold of a caller that has made no call
NoIndex == 0 - 1
NoLevel == 0 - 1

VARIABLES
    currentLevel,   \* Logger.currentLevel
    timeFormat,     \* Logger.timeFormat
    timeStr,        \* *Logger.timeStr, the cached formatted time
    muUpdate,       \* Logger.muUpdate: Free or the thread holding it
    bufStack,       \* Logger.bufStack: the channel of free buffer indices
    buffers,        \* Logger.buffers
    file,           \* Logger.file: a handle
    muReopen,       \* Logger.muReopen: Free or the thread holding it
    signalChan,     \* Logger.signalChan: number of queued SIGHUPs (capacity 1)
    opened,         \* handles opened so far; handle h is the h-th one opened
    handles,        \* per handle: how often it was closed, the records written
    sinkOut,        \* the sink's current target handle
    sinkQueue,      \* records the sink accepted and has not written yet
    lost,           \* records the sink failed to write (target closed)
    pc,             \* position of every thread
    call,           \* per caller: the arguments and locals of its log call
    cfg,            \* the configuration call in progress or last returned, the
                    \* level of the last SetLevel that returned nil, if any
    reopen,         \* per Reopen caller: its local f and its last result
    now,            \* ticks delivered by the ticker
    calls,          \* log calls started
    raced           \* some Reopen started while another was in progress

vars == <<currentLevel, timeFormat, timeStr, muUpdate, bufStack, buffers, file,
          muReopen, signalChan, opened, handles, sinkOut, sinkQueue, lost, pc,
          call, cfg, reopen, now, calls, raced>>

confVars == <<currentLevel, timeFormat, timeStr>>
poolVars == <<bufStack, buffers>>
rotVars == <<file, muReopen, signalChan, opened, handles, sinkOut, reopen, raced>>
sinkVars == <<sinkQueue, lost>>
countVars == <<now, calls>>

Handles == 0..MaxOpens

IsOpen(h) == h < opened /\ handles[h].closes = 0

NoCall == [level |-> NoLevel, data |-> <<>>, id |-> 0, i |-> NoIndex,
           seen |-> NoLevel, free |-> 0, ts |-> <<>>, handed |-> 0, rec |-> <<>>]


(***************************************************************************)
(* The sink (package logwriter, outside this repository), by its contract: *)
(* Write accepts a record and returns; the sink writes accepted records to *)
(* its target later, in order; Reset(f) first writes out every accepted    *)
(* record ("Reopen waits when all previous records are added to the log",  *)
(* src/logger.go:161) and then makes f the target.  A write to a closed    *)
(* handle fails and the record is lost.                                    *)
(***************************************************************************)
WriteTo(hs, h, rec) ==
    IF hs[h].closes = 0 THEN [hs EXCEPT ![h].data = Append(@, rec)] ELSE hs

LostAt(hs, h, rec) == IF hs[h].closes = 0 THEN <<>> ELSE <<rec>>

RECURSIVE Drain(_, _, _)
Drain(hs, h, q) == IF q = <<>> THEN hs ELSE Drain(WriteTo(hs, h, Head(q)), h, Tail(q))

RECURSIVE DrainLost(_, _, _)
DrainLost(hs, h, q) ==
    IF q = <<>> THEN <<>> ELSE LostAt(hs, h, Head(q)) \o DrainLost(hs, h, Tail(q))

\* Write(bytes): the record is accepted
SinkWrite(rec) == sinkQueue' = Append(sinkQueue, rec)

\* Reset(f)
SinkReset(f) ==
    /\ handles' = Drain(handles, sinkOut, sinkQueue)
    /\ lost' = lost \o DrainLost(handles, sinkOut, sinkQueue)
    /\ sinkQueue' = <<>>
    /\ sinkOut' = f

\* the sink's writer, one record at a time
SinkFlush ==
    /\ sinkQueue # <<>>
    /\ handles' = WriteTo(handles, sinkOut, Head(sinkQueue))
    /\ lost' = lost \o LostAt(handles, sinkOut, Head(sinkQueue))
    /\ sinkQueue' = Tail(sinkQueue)
    /\ UNCHANGED <<confVars, muUpdate, poolVars, file, muReopen, signalChan, opened,
                   sinkOut, pc, call, cfg, reopen, countVars, raced>>

(***************************************************************************)
(* Logger.output (src/logger.go:210-230), entered from LogFatal .. LogTrace *)
(***************************************************************************)
\* a filter that also drops the threshold's own level
Filtered_dropsEqual(level, threshold) == level >= threshold

\* line 212: the record is dropped
Filtered(level, threshold) == level > threshold

\* line 218: i := <-l.bufStack
Received(ch) == Head(ch)

\* a receive that leaves the index in the channel
AfterReceive_keeps(ch) == ch

AfterReceive(ch) == Tail(ch)

\* a deferred send that puts the index back twice
AfterSend_twice(ch, i) == Append(Append(ch, i), i)

\* line 219: l.bufStack <- i (deferred)
AfterSend(ch, i) == Append(ch, i)

\* a newline appended whatever the record ends with
LacksNewline_always(b) == TRUE

\* line 225: the last byte of the composed record is not a newline
LacksNewline(b) == get(b)[Len(get(b))] # NL

\* lines 221-223, given the value getTime returned: each append acts on the
\* buffer the one before it left
Appended(b, ts, level, data) ==
    CHOOSE b3 \in {append(b2, data) :
                      b2 \in {append(b1, levelStrings[level]) : b1 \in {append(b, ts)}}} : TRUE

\* lines 225-227
Composed(b, ts, level, data) ==
    LET b3 == Appended(b, ts, level, data)
    IN  IF LacksNewline(b3) THEN append(b3, <<NL>>) ELSE b3

\* a return on a Write error that skips the send
AfterWrite_leaksOnError(err) == IF err THEN "done" ELSE "release"

\* line 229: the result of Write is not looked at; the deferred send follows
AfterWrite(err) == "release"

\* LogFatal .. LogTrace call output, which locks muUpdate (line 211)
LogCall(c, level, data) ==
    /\ pc[c] \in {"idle", "done"}
    /\ calls < MaxCalls
    /\ muUpdate = Free
    /\ muUpdate' = c
    /\ calls' = calls + 1
    /\ call' = [call EXCEPT ![c] = [NoCall EXCEPT !.level = level, !.data = data,
                                                  !.id = calls + 1]]
    /\ pc' = [pc EXCEPT ![c] = "filter"]
    /\ UNCHANGED <<confVars, poolVars, rotVars, sinkVars, cfg, now>>

\* a filter check made only once an index is there to be received
OutputFilter_afterPool(c) ==
    /\ pc[c] = "filter"
    /\ bufStack # <<>>
    /\ muUpdate' = Free
    /\ call' = [call EXCEPT ![c].seen = currentLevel, ![c].free = Len(bufStack)]
    /\ pc' = [pc EXCEPT ![c] = IF Filtered(call[c].level, currentLevel)
                               THEN "done" ELSE "acquire"]
    /\ UNCHANGED <<confVars, poolVars, rotVars, sinkVars, cfg, countVars>>

\* lines 212-216
OutputFilter(c) ==
    /\ pc[c] = "filter"
    /\ muUpdate' = Free
    /\ call' = [call EXCEPT ![c].seen = currentLevel, ![c].free = Len(bufStack)]
    /\ pc' = [pc EXCEPT ![c] = IF Filtered(call[c].level, currentLevel)
                               THEN "done" ELSE "acquire"]
    /\ UNCHANGED <<confVars, poolVars, rotVars, sinkVars, cfg, countVars>>

\* lines 218-220: receive an index (blocks while the channel is empty), clear
OutputAcquire(c) ==
    /\ pc[c] = "acquire"
    /\ bufStack # <<>>
    /\ LET i == Received(bufStack)
       IN  /\ call' = [call EXCEPT ![c].i = i]
           /\ buffers' = [buffers EXCEPT ![i] = clear(@)]
    /\ bufStack' = AfterReceive(bufStack)
    /\ pc' = [pc EXCEPT ![c] = "gettime"]
    /\ UNCHANGED <<confVars, muUpdate, rotVars, sinkVars, cfg, countVars>>

\* line 221, getTime line 205
OutputGetTime(c) ==
    /\ pc[c] = "gettime"
    /\ muUpdate = Free
    /\ muUpdate' = c
    /\ pc' = [pc EXCEPT ![c] = "compose"]
    /\ UNCHANGED <<confVars, poolVars, rotVars, sinkVars, call, cfg, countVars>>

\* a timestamp whose first byte is of the cached value and whose other
\* bytes are of the value New cached
OutputCompose_mixed(c) ==
    /\ pc[c] = "compose"
    /\ muUpdate' = Free
    /\ LET i == call[c].i
           ts == IF timeStr = <<>> THEN <<>>
                 ELSE <<timeStr[1]>> \o Tail(Format(0, DefaultLayout))
       IN  /\ buffers' = [buffers EXCEPT ![i] =
                             Composed(buffers[i], ts, call[c].level, call[c].data)]
           /\ pc' = [pc EXCEPT ![c] = "write"]
    /\ call' = [call EXCEPT ![c].ts = timeStr]
    /\ UNCHANGED <<confVars, bufStack, rotVars, sinkVars, cfg, countVars>>

\* a getTime that returns without unlocking muUpdate
OutputCompose_keepsLock(c) ==
    /\ pc[c] = "compose"
    /\ LET i == call[c].i
       IN  /\ buffers' = [buffers EXCEPT ![i] =
                             Composed(buffers[i], timeStr, call[c].level, call[c].data)]
           /\ pc' = [pc EXCEPT ![c] = "write"]
    /\ call' = [call EXCEPT ![c].ts = timeStr]
    /\ UNCHANGED <<confVars, muUpdate, bufStack, rotVars, sinkVars, cfg, countVars>>

\* getTime lines 206-207, then lines 221-227.  An empty composed record makes
\* line 225 index out of range: the call panics and the deferred send runs.
OutputCompose(c) ==
    /\ pc[c] = "compose"
    /\ muUpdate' = Free
    /\ LET i == call[c].i
           b3 == Appended(buffers[i], timeStr, call[c].level, call[c].data)
       IN  IF Len(get(b3)) = 0
           THEN /\ buffers' = [buffers EXCEPT ![i] = b3]
                /\ pc' = [pc EXCEPT ![c] = "unwind"]
           ELSE /\ buffers' = [buffers EXCEPT ![i] =
                                  Composed(buffers[i], timeStr, call[c].level, call[c].data)]
                /\ pc' = [pc EXCEPT ![c] = "write"]
    /\ call' = [call EXCEPT ![c].ts = timeStr]
    /\ UNCHANGED <<confVars, bufStack, rotVars, sinkVars, cfg, countVars>>

\* line 229
OutputWrite(c) ==
    /\ pc[c] = "write"
    /\ \E err \in BOOLEAN : pc' = [pc EXCEPT ![c] = AfterWrite(err)]
    /\ LET b == get(buffers[call[c].i])
       IN  /\ SinkWrite([id |-> call[c].id, bytes |-> b, tgt |-> sinkOut,
                             last |-> opened - 1,
                             quiet |-> \A r \in Reopeners : pc[r] = "idle",
                             pre |-> file,
                             post |-> {reopen[r].f : r \in {q \in Reopeners : pc[q] # "idle"}},
                             afterErr |-> \E r \in Reopeners : reopen[r].res = "err"])
           /\ call' = [call EXCEPT ![c].handed = @ + 1, ![c].rec = b]
    /\ UNCHANGED <<confVars, muUpdate, poolVars, rotVars, lost, cfg, countVars>>

\* line 219, run when output returns or panics
OutputRelease(c) ==
    /\ pc[c] \in {"release", "unwind"}
    /\ bufStack' = AfterSend(bufStack, call[c].i)
    /\ call' = [call EXCEPT ![c].i = NoIndex]
    /\ pc' = [pc EXCEPT ![c] = IF pc[c] = "unwind" THEN "panicked" ELSE "done"]
    /\ UNCHANGED <<confVars, muUpdate, buffers, rotVars, sinkVars, cfg, countVars>>


(***************************************************************************)
(* SetLevel (src/logger.go:143-152) and SetTimeFormat (155-159)            *)
(***************************************************************************)
\* a check that accepts every byte
KnownLevel_any(level) == level \in 0..255

\* line 144
KnownLevel(level) == level \in DOMAIN levelStrings

\* line 149
StoredLevel(level) == level

\* lines 144-148: an unknown level returns an error, a known one locks muUpdate
SetLevel(level) ==
    /\ pc[Cfg] = "idle"
    /\ IF ~KnownLevel(level)
       THEN /\ cfg' = [cfg EXCEPT !.op = "SetLevel", !.level = level,
                                   !.layout = <<>>, !.err = TRUE]
            /\ UNCHANGED <<muUpdate, pc>>
       ELSE /\ muUpdate = Free
            /\ muUpdate' = Cfg
            /\ cfg' = [cfg EXCEPT !.op = "SetLevel", !.level = level,
                                   !.layout = <<>>, !.err = FALSE]
            /\ pc' = [pc EXCEPT ![Cfg] = "setlevel"]
    /\ UNCHANGED <<confVars, poolVars, rotVars, sinkVars, call, countVars>>

\* lines 149-151
SetLevelStore ==
    /\ pc[Cfg] = "setlevel"
    /\ currentLevel' = StoredLevel(cfg.level)
    /\ muUpdate' = Free
    /\ cfg' = [cfg EXCEPT !.lastOk = cfg.level, !.set = TRUE]
    /\ pc' = [pc EXCEPT ![Cfg] = "idle"]
    /\ UNCHANGED <<timeFormat, timeStr, poolVars, rotVars, sinkVars, call, countVars>>

\* line 156
SetTimeFormat(layout) ==
    /\ pc[Cfg] = "idle"
    /\ muUpdate = Free
    /\ muUpdate' = Cfg
    /\ cfg' = [cfg EXCEPT !.op = "SetTimeFormat", !.level = NoLevel,
                           !.layout = layout, !.err = FALSE]
    /\ pc' = [pc EXCEPT ![Cfg] = "settimeformat"]
    /\ UNCHANGED <<confVars, poolVars, rotVars, sinkVars, call, countVars>>

\* a SetTimeFormat that also reformats the cached time
SetTimeFormatStore_reformats ==
    /\ pc[Cfg] = "settimeformat"
    /\ timeFormat' = cfg.layout
    /\ timeStr' = Format(now, cfg.layout)
    /\ muUpdate' = Free
    /\ pc' = [pc EXCEPT ![Cfg] = "idle"]
    /\ UNCHANGED <<currentLevel, poolVars, rotVars, sinkVars, call, cfg, countVars>>

\* lines 157-158
SetTimeFormatStore ==
    /\ pc[Cfg] = "settimeformat"
    /\ timeFormat' = cfg.layout
    /\ muUpdate' = Free
    /\ pc' = [pc EXCEPT ![Cfg] = "idle"]
    /\ UNCHANGED <<currentLevel, timeStr, poolVars, rotVars, sinkVars, call, cfg, countVars>>

(***************************************************************************)
(* updateTime (src/logger.go:188-202)                                      *)
(***************************************************************************)
\* lines 194-195: a tick arrives and the goroutine locks muUpdate
UpdateTimeTick ==
    /\ pc[Tick] = "idle"
    /\ now < MaxTicks
    /\ muUpdate = Free
    /\ muUpdate' = Tick
    /\ now' = now + 1
    /\ pc' = [pc EXCEPT ![Tick] = "store"]
    /\ UNCHANGED <<confVars, poolVars, rotVars, sinkVars, call, cfg, calls>>

\* a ticker that stores the time and never unlocks muUpdate
UpdateTimeStore_keepsLock ==
    /\ pc[Tick] = "store"
    /\ timeStr' = Format(now, timeFormat)
    /\ pc' = [pc EXCEPT ![Tick] = "idle"]
    /\ UNCHANGED <<currentLevel, timeFormat, muUpdate, poolVars, rotVars, sinkVars, call,
                   cfg, countVars>>

\* lines 196-199
UpdateTimeStore ==
    /\ pc[Tick] = "store"
    /\ timeStr' = Format(now, timeFormat)
    /\ muUpdate' = Free
    /\ pc' = [pc EXCEPT ![Tick] = "idle"]
    /\ UNCHANGED <<currentLevel, timeFormat, poolVars, rotVars, sinkVars, call, cfg, countVars>>

(***************************************************************************)
(* Reopen (src/logger.go:162-175) and signalLoop (177-186)                 *)
(***************************************************************************)
\* signal.Notify's delivery to a channel of capacity 1 never blocks: a SIGHUP
\* that finds the channel full is dropped.
Signal ==
    /\ signalChan' = 1
    /\ UNCHANGED <<confVars, muUpdate, poolVars, file, muReopen, opened, handles, sinkOut,
                   reopen, raced, sinkVars, pc, call, cfg, countVars>>

\* a Reopen that closes the current file before it looks at the error
ReopenOpen_closesOnError(r, ok) ==
    /\ pc[r] = "idle"
    /\ IF r = Sig THEN signalChan = 1 /\ signalChan' = 0 ELSE UNCHANGED signalChan
    /\ IF ok
       THEN /\ opened <= MaxOpens
            /\ opened' = opened + 1
            /\ reopen' = [reopen EXCEPT ![r] = [f |-> opened, res |-> "none"]]
            /\ raced' = (raced \/ \E q \in Reopeners : pc[q] # "idle")
            /\ pc' = [pc EXCEPT ![r] = "lock"]
            /\ UNCHANGED handles
       ELSE /\ reopen' = [reopen EXCEPT ![r].res = "err"]
            /\ handles' = [handles EXCEPT ![file].closes = @ + 1]
            /\ UNCHANGED <<opened, raced, pc>>
    /\ UNCHANGED <<confVars, muUpdate, poolVars, file, muReopen, sinkOut,
                   sinkVars, call, cfg, countVars>>

\* lines 163-167 (for the signal loop after line 179): os.OpenFile succeeds
\* and yields a fresh handle, or fails and Reopen returns the error.
ReopenOpen(r, ok) ==
    /\ pc[r] = "idle"
    /\ IF r = Sig THEN signalChan = 1 /\ signalChan' = 0 ELSE UNCHANGED signalChan
    /\ IF ok
       THEN /\ opened <= MaxOpens
            /\ opened' = opened + 1
            /\ reopen' = [reopen EXCEPT ![r] = [f |-> opened, res |-> "none"]]
            /\ raced' = (raced \/ \E q \in Reopeners : pc[q] # "idle")
            /\ pc' = [pc EXCEPT ![r] = "lock"]
       ELSE /\ reopen' = [reopen EXCEPT ![r].res = "err"]
            /\ UNCHANGED <<opened, raced, pc>>
    /\ UNCHANGED <<confVars, muUpdate, poolVars, file, muReopen, handles, sinkOut,
                   sinkVars, call, cfg, countVars>>

\* line 169
ReopenLock(r) ==
    /\ pc[r] = "lock"
    /\ muReopen = Free
    /\ muReopen' = r
    /\ pc' = [pc EXCEPT ![r] = "reset"]
    /\ UNCHANGED <<confVars, muUpdate, poolVars, file, signalChan, opened, handles, sinkOut,
                   reopen, raced, sinkVars, call, cfg, countVars>>

\* a Reopen that swaps the file without telling the sink
ReopenReset_skipped(r) ==
    /\ pc[r] = "reset"
    /\ pc' = [pc EXCEPT ![r] = "close"]
    /\ UNCHANGED <<confVars, muUpdate, poolVars, file, muReopen, signalChan, opened,
                   handles, sinkOut, sinkVars, reopen, raced, call, cfg, countVars>>

\* a Reopen that closes the previous file before it redirects the sink
ReopenReset_closesFirst(r) ==
    /\ pc[r] = "reset"
    /\ LET closed == [handles EXCEPT ![file].closes = @ + 1]
       IN  /\ handles' = Drain(closed, sinkOut, sinkQueue)
           /\ lost' = lost \o DrainLost(closed, sinkOut, sinkQueue)
    /\ sinkQueue' = <<>>
    /\ sinkOut' = reopen[r].f
    /\ pc' = [pc EXCEPT ![r] = "close"]
    /\ UNCHANGED <<confVars, muUpdate, poolVars, file, muReopen, signalChan, opened,
                   reopen, raced, call, cfg, countVars>>

\* a Reopen whose Reset redirects the sink and drops what it had accepted
ReopenReset_dropsPending(r) ==
    /\ pc[r] = "reset"
    /\ lost' = lost \o sinkQueue
    /\ sinkQueue' = <<>>
    /\ sinkOut' = reopen[r].f
    /\ pc' = [pc EXCEPT ![r] = "close"]
    /\ UNCHANGED <<confVars, muUpdate, poolVars, file, muReopen, signalChan, opened,
                   handles, reopen, raced, call, cfg, countVars>>

\* line 170: l.writer.Reset(f)
ReopenReset(r) ==
    /\ pc[r] = "reset"
    /\ SinkReset(reopen[r].f)
    /\ pc' = [pc EXCEPT ![r] = "close"]
    /\ UNCHANGED <<confVars, muUpdate, poolVars, file, muReopen, signalChan, opened,
                   reopen, raced, call, cfg, countVars>>

\* a Reopen that replaces the file without closing the previous one
ReopenClose_leaks(r) ==
    /\ pc[r] = "close"
    /\ file' = reopen[r].f
    /\ muReopen' = Free
    /\ reopen' = [reopen EXCEPT ![r].res = "ok"]
    /\ pc' = [pc EXCEPT ![r] = "idle"]
    /\ UNCHANGED <<confVars, muUpdate, poolVars, signalChan, opened, handles, sinkOut, raced,
                   sinkVars, call, cfg, countVars>>

\* lines 171-174
ReopenClose(r) ==
    /\ pc[r] = "close"
    /\ handles' = [handles EXCEPT ![file].closes = @ + 1]
    /\ file' = reopen[r].f
    /\ muReopen' = Free
    /\ reopen' = [reopen EXCEPT ![r].res = "ok"]
    /\ pc' = [pc EXCEPT ![r] = "idle"]
    /\ UNCHANGED <<confVars, muUpdate, poolVars, signalChan, opened, sinkOut, raced,
                   sinkVars, call, cfg, countVars>>

(***************************************************************************)
(* New (src/logger.go:107-139): the state of a Logger it returns.          *)
(***************************************************************************)
Init ==
    /\ currentLevel = InfoLevel
    /\ timeFormat = DefaultLayout
    /\ timeStr = Format(0, DefaultLayout)
    /\ muUpdate = Free
    /\ bufStack = [i \in 1..defaulBuffers |-> i - 1]
    /\ buffers = [i \in 0..(defaulBuffers - 1) |-> ZeroBuffer]
    /\ file = 0
    /\ muReopen = Free
    /\ signalChan = 0
    /\ opened = 1
    /\ handles = [h \in Handles |-> [closes |-> 0, data |-> <<>>]]
    /\ sinkOut = 0
    /\ sinkQueue = <<>>
    /\ lost = <<>>
    /\ pc = [t \in Callers \cup {Cfg, Tick} \cup Reopeners |-> "idle"]
    /\ call = [c \in Callers |-> NoCall]
    /\ cfg = [op |-> "none", level |-> NoLevel, layout |-> <<>>, err |-> FALSE,
              lastOk |-> InfoLevel, set |-> FALSE]
    /\ reopen = [r \in Reopeners |-> [f |-> 0, res |-> "none"]]
    /\ now = 0
    /\ calls = 0
    /\ raced = FALSE

\* The payload of a concurrent caller: the number of its call.
Payloads(k) == {<<Digit(k)>>}

\* Every payload of at most MaxPayload bytes over a letter and the newline.
AllPayloads == UNION {[1..n -> {"a", NL}] : n \in 0..MaxPayload}

(***************************************************************************)
(* LogSpec: the log callers with the configuration caller, the ticker and  *)
(* the sink.  Reopen and signalLoop are left to RotateSpec: they read and  *)
(* write only muReopen, file, signalChan and the sink, none of which       *)
(* SetLevel, SetTimeFormat or updateTime touch.                            *)
(***************************************************************************)
LogNext ==
    \/ \E c \in Callers, level \in CallLevels :
          \E data \in Payloads(calls + 1) : LogCall(c, level, data)
    \/ \E c \in Callers : OutputFilter(c)
    \/ \E c \in Callers : OutputAcquire(c)
    \/ \E c \in Callers : OutputGetTime(c)
    \/ \E c \in Callers : OutputCompose(c)
    \/ \E c \in Callers : OutputWrite(c)
    \/ \E c \in Callers : OutputRelease(c)
    \/ \E level \in SetLevels : SetLevel(level)
    \/ SetLevelStore
    \/ \E layout \in SetLayouts : SetTimeFormat(layout)
    \/ SetTimeFormatStore
    \/ UpdateTimeTick
    \/ UpdateTimeStore
    \/ SinkFlush

LogSpec == Init /\ [][LogNext]_vars

(***************************************************************************)
(* RotateSpec: the log callers with the signal loop, a direct caller of    *)
(* Reopen and the sink, at the threshold, layout and cached time New set.  *)
(***************************************************************************)
RotateNext ==
    \/ \E c \in Callers, level \in RotateLevels :
          \E data \in Payloads(calls + 1) : LogCall(c, level, data)
    \/ \E c \in Callers : OutputFilter(c)
    \/ \E c \in Callers : OutputAcquire(c)
    \/ \E c \in Callers : OutputGetTime(c)
    \/ \E c \in Callers : OutputCompose(c)
    \/ \E c \in Callers : OutputWrite(c)
    \/ \E c \in Callers : OutputRelease(c)
    \/ Signal
    \/ \E r \in Reopeners, ok \in BOOLEAN : ReopenOpen(r, ok)
    \/ \E r \in Reopeners : ReopenLock(r)
    \/ \E r \in Reopeners : ReopenReset(r)
    \/ \E r \in Reopeners : ReopenClose(r)
    \/ SinkFlush

RotateSpec == Init /\ [][RotateNext]_vars

(***************************************************************************)
(* FormatSpec: one log call on a logger whose threshold is any of the six  *)
(* levels and whose cached time is any tick in any layout, with every      *)
(* level and every payload of AllPayloads.                                 *)
(***************************************************************************)
FormatInit ==
    /\ currentLevel \in Levels
    /\ \E layout \in Layouts, t \in 0..MaxTicks :
          /\ timeFormat = layout
          /\ timeStr = Format(t, layout)
    /\ muUpdate = Free
    /\ bufStack = [i \in 1..defaulBuffers |-> i - 1]
    /\ buffers = [i \in 0..(defaulBuffers - 1) |-> ZeroBuffer]
    /\ file = 0
    /\ muReopen = Free
    /\ signalChan = 0
    /\ opened = 1
    /\ handles = [h \in Handles |-> [closes |-> 0, data |-> <<>>]]
    /\ sinkOut = 0
    /\ sinkQueue = <<>>
    /\ lost = <<>>
    /\ pc = [t \in Callers \cup {Cfg, Tick} \cup Reopeners |-> "idle"]
    /\ call = [c \in Callers |-> NoCall]
    /\ cfg = [op |-> "none", level |-> NoLevel, layout |-> <<>>, err |-> FALSE,
              lastOk |-> currentLevel, set |-> FALSE]
    /\ reopen = [r \in Reopeners |-> [f |-> 0, res |-> "none"]]
    /\ now = 0
    /\ calls = 0
    /\ raced = FALSE

FormatNext ==
    \/ /\ calls = 0
       /\ \E level \in Levels, data \in AllPayloads : LogCall("c1", level, data)
    \/ OutputFilter("c1")
    \/ OutputAcquire("c1")
    \/ OutputGetTime("c1")
    \/ OutputCompose("c1")
    \/ OutputWrite("c1")
    \/ OutputRelease("c1")
    \/ SinkFlush

FormatSpec == FormatInit /\ [][FormatNext]_vars


(***************************************************************************)
(* LiveSpec: the log callers (more callers than buffers), the              *)
(* configuration caller, the ticker, one Reopen and the sink, under fair   *)
(* scheduling.  Starting a call is never required.  A step that needs       *)
(* nothing but the thread's turn is weakly fair.  The receive from         *)
(* bufStack and the Lock of muUpdate in getTime, which other threads       *)
(* enable and disable again, are strongly fair: Go queues blocked          *)
(* receivers first-in first-out and hands a sync.Mutex to a waiter that    *)
(* has been starved.                                                       *)
(***************************************************************************)
LiveNext ==
    \/ \E c \in Callers, level \in RotateLevels :
          \E data \in Payloads(calls + 1) : LogCall(c, level, data)
    \/ \E c \in Callers : OutputFilter(c)
    \/ \E c \in Callers : OutputAcquire(c)
    \/ \E c \in Callers : OutputGetTime(c)
    \/ \E c \in Callers : OutputCompose(c)
    \/ \E c \in Callers : OutputWrite(c)
    \/ \E c \in Callers : OutputRelease(c)
    \/ SetLevel(InfoLevel)
    \/ SetLevelStore
    \/ SetTimeFormat(DefaultLayout)
    \/ SetTimeFormatStore
    \/ UpdateTimeTick
    \/ UpdateTimeStore
    \/ opened = 1 /\ ReopenOpen(Usr, TRUE)
    \/ ReopenLock(Usr)
    \/ ReopenReset(Usr)
    \/ ReopenClose(Usr)
    \/ SinkFlush

CallerStep(c) == OutputFilter(c) \/ OutputCompose(c) \/ OutputWrite(c) \/ OutputRelease(c)

CfgStep == SetLevelStore \/ SetTimeFormatStore

ReopenStep(r) == ReopenLock(r) \/ ReopenReset(r) \/ ReopenClose(r)

LiveFairness ==
    /\ \A c \in Callers :
          /\ WF_vars(CallerStep(c))
          /\ SF_vars(OutputAcquire(c))
          /\ SF_vars(OutputGetTime(c))
    /\ WF_vars(CfgStep)
    /\ WF_vars(UpdateTimeStore)
    /\ WF_vars(ReopenStep(Usr))

LiveSpec == Init /\ [][LiveNext]_vars /\ LiveFairness


(***************************************************************************)
(* ThresholdSpec: FormatSpec's one log call, with SetLevel called at any    *)
(* point of it with the last level, the byte after it or the largest byte. *)
(***************************************************************************)
SetBytes == {TraceLevel, TraceLevel + 1, 255}

ThresholdNext ==
    \/ FormatNext
    \/ \E level \in SetBytes : SetLevel(level)
    \/ SetLevelStore

ThresholdSpec == FormatInit /\ [][ThresholdNext]_vars

(***************************************************************************)
(* BufferSpec: one buffer, as in TestBuffer (src/unnamed/part_000:163-175): *)
(* a thread that owns buffers[0] calls append, clear and get on it in any  *)
(* order, MaxOps calls in all, with the data of BufferData.  The last call *)
(* is kept in pc, its argument in call.data and what get returned in       *)
(* call.rec; calls counts the calls made.                                  *)
(***************************************************************************)
Tester == "c1"

\* the data of TestBuffer: the zeros of its loop, "0" and "12"; and no data
BufferData ==
    {<<>>, <<"0">>, [i \in 1..(defaulBufferSize - 1) |-> "0"], SubSeq(Digits, 2, 1 + MaxData)}

BufferAppend(d) ==
    /\ calls < MaxOps
    /\ buffers' = [buffers EXCEPT ![0] = append(@, d)]
    /\ call' = [call EXCEPT ![Tester].data = d]
    /\ pc' = [pc EXCEPT ![Tester] = "append"]
    /\ calls' = calls + 1
    /\ UNCHANGED <<confVars, muUpdate, bufStack, rotVars, sinkVars, cfg, now>>

BufferClear ==
    /\ calls < MaxOps
    /\ buffers' = [buffers EXCEPT ![0] = clear(@)]
    /\ call' = [call EXCEPT ![Tester].data = <<>>]
    /\ pc' = [pc EXCEPT ![Tester] = "clear"]
    /\ calls' = calls + 1
    /\ UNCHANGED <<confVars, muUpdate, bufStack, rotVars, sinkVars, cfg, now>>

BufferGet ==
    /\ calls < MaxOps
    /\ call' = [call EXCEPT ![Tester].data = <<>>, ![Tester].rec = get(buffers[0])]
    /\ pc' = [pc EXCEPT ![Tester] = "get"]
    /\ calls' = calls + 1
    /\ UNCHANGED <<confVars, muUpdate, poolVars, rotVars, sinkVars, cfg, now>>

BufferNext ==
    \/ \E d \in BufferData : BufferAppend(d)
    \/ BufferClear
    \/ BufferGet

BufferSpec == Init /\ [][BufferNext]_vars

(***************************************************************************)
(* What the claims are stated over.                                        *)
(***************************************************************************)
RECURSIVE Written(_)
Written(h) == IF h < 0 THEN <<>> ELSE Written(h - 1) \o handles[h].data

\* every record the sink was handed, wherever it is now
HandedOver == Written(MaxOpens) \o sinkQueue \o lost

NumIn(seq, id) == Cardinality({k \in 1..Len(seq) : seq[k].id = id})

\* the caller is between its receive from bufStack and its send to it
Holding(c) == pc[c] \in {"gettime", "compose", "write", "release", "unwind"}

Indices == 0..(defaulBuffers - 1)

(***************************************************************************)
(* C1: a log call at level L hands exactly one record to the sink if L is  *)
(* at most the threshold held at its filter check and none otherwise; with *)
(* the default threshold (no SetLevel stored) exactly the calls at Info or *)
(* a more severe level produce a record.                                   *)
(***************************************************************************)
C1_FilterRule ==
    \A c \in Callers :
        /\ NumIn(HandedOver, call[c].id) <= 1
        /\ pc[c] \in {"idle", "filter", "acquire", "gettime", "compose", "write"}
              => NumIn(HandedOver, call[c].id) = 0
        /\ pc[c] \in {"release", "done"}
              => NumIn(HandedOver, call[c].id) =
                    IF call[c].level <= call[c].seen THEN 1 ELSE 0
        /\ (pc[c] = "done" /\ ~cfg.set)
              => (NumIn(HandedOver, call[c].id) = 1 <=> call[c].level <= InfoLevel)

\* two finished calls at the same level, one emitted and one dropped
C1_Witness ==
    \E c, d \in Callers :
        /\ pc[c] = "done" /\ pc[d] = "done"
        /\ call[c].level = call[d].level
        /\ NumIn(HandedOver, call[c].id) = 1
        /\ NumIn(HandedOver, call[d].id) = 0

(***************************************************************************)
(* C2: SetLevel(v) with v outside the six levels returns an error and      *)
(* leaves the threshold unchanged; with v one of the six it returns no     *)
(* error, and v is the threshold every later filter check compares with,   *)
(* until the next successful SetLevel.                                     *)
(***************************************************************************)
C2_Returned ==
    /\ cfg.op = "SetLevel" => (cfg.err <=> cfg.level \notin 0..5)
    /\ currentLevel = cfg.lastOk
    /\ currentLevel \in 0..5

C2_Step ==
    /\ (cfg'.op = "SetLevel" /\ cfg'.err /\ cfg' # cfg)
          => currentLevel' = currentLevel
    /\ (pc[Cfg] = "setlevel" /\ pc'[Cfg] = "idle")
          => currentLevel' = cfg.level /\ ~cfg'.err
    /\ \A c \in Callers :
          (pc[c] = "filter" /\ pc'[c] # "filter")
             => (pc'[c] = "acquire" <=> call[c].level <= cfg.lastOk)

C2_SetLevel == []C2_Returned /\ [][C2_Step]_vars

\* SetLevel(Debug) returned nil, SetLevel(255) then returned an error, and a
\* Debug call was emitted and a Trace call dropped
C2_Witness ==
    /\ cfg.op = "SetLevel" /\ cfg.level = 255 /\ cfg.err
    /\ currentLevel = DebugLevel
    /\ \E c, d \in Callers :
          /\ pc[c] = "done" /\ call[c].level = DebugLevel
          /\ NumIn(HandedOver, call[c].id) = 1
          /\ pc[d] = "done" /\ call[d].level = TraceLevel /\ call[d].seen = DebugLevel
          /\ NumIn(HandedOver, call[d].id) = 0


(***************************************************************************)
(* C3: no two log calls hold the same buffer index at the same time, and   *)
(* between a call's receive of index i and its send of i only that call    *)
(* changes buffer i.                                                       *)
(***************************************************************************)
C3_OneHolder ==
    \A c, d \in Callers :
        (c # d /\ Holding(c) /\ Holding(d)) => call[c].i # call[d].i

C3_OwnerWrites ==
    \A i \in Indices :
        buffers'[i] # buffers[i]
           => \E c \in Callers :
                 /\ pc'[c] # pc[c]
                 /\ Holding(c)'
                 /\ call'[c].i = i
                 /\ \A d \in Callers \ {c} : ~(Holding(d) /\ call[d].i = i)

C3_Exclusive == []C3_OneHolder /\ [][C3_OwnerWrites]_vars

\* every index is checked out, one call is about to hand its buffer to the
\* sink and another waits for an index
C3_Witness ==
    /\ bufStack = <<>>
    /\ \E c, d \in Callers : pc[c] = "write" /\ pc[d] = "acquire"

(***************************************************************************)
(* C4: a log call whose level is above the threshold returns from the      *)
(* filter check without receiving an index and without touching the        *)
(* buffers or the sink, and can do so when every index is checked out.     *)
(***************************************************************************)
C4_CanReturn ==
    \A c \in Callers :
        (pc[c] = "filter" /\ call[c].level > currentLevel) => ENABLED OutputFilter(c)

C4_Dropped ==
    \A c \in Callers :
        (pc[c] = "done" /\ call[c].level > call[c].seen)
           => call[c].i = NoIndex /\ NumIn(HandedOver, call[c].id) = 0

C4_Return ==
    \A c \in Callers :
        (pc[c] = "filter" /\ pc'[c] # "filter" /\ call[c].level > currentLevel)
           => /\ pc'[c] = "done"
              /\ UNCHANGED <<bufStack, buffers, sinkQueue, handles, sinkOut, lost>>

C4_FilterFirst == [](C4_CanReturn /\ C4_Dropped) /\ [][C4_Return]_vars

\* a call was dropped at a filter check made while every index was checked
\* out, and they still are
C4_Witness ==
    \E c \in Callers :
        /\ pc[c] = "done"
        /\ call[c].level > call[c].seen
        /\ call[c].free = 0
        /\ bufStack = <<>>

(***************************************************************************)
(* C10: every index a log call receives is sent back once, whatever Write  *)
(* returns: a call outside receive..send holds no index, and when no call  *)
(* is inside, bufStack holds each of the N indices exactly once.           *)
(***************************************************************************)
C10_AllReleased ==
    /\ \A c \in Callers : ~Holding(c) => call[c].i = NoIndex
    /\ (\A c \in Callers : ~Holding(c))
          => /\ Len(bufStack) = defaulBuffers
             /\ {bufStack[k] : k \in 1..Len(bufStack)} = Indices

\* both callers have had a record handed to the sink and returned
C10_Witness ==
    /\ \A c \in Callers : pc[c] = "done" /\ NumIn(HandedOver, call[c].id) = 1
    /\ Len(bufStack) = defaulBuffers


(***************************************************************************)
(* C5: a Reopen whose open fails returns the error and changes nothing:    *)
(* the file handle, every handle's state, the sink's target and what it    *)
(* holds stay as they were, the rotation lock is not taken, and the sink's *)
(* target stays open for the records logged afterwards.                    *)
(***************************************************************************)
ReopenFails(r) ==
    /\ pc[r] = "idle" /\ pc'[r] = "idle"
    /\ reopen'[r].res = "err"
    /\ reopen[r].res # "err" \/ (r = Sig /\ signalChan = 1 /\ signalChan' = 0)

C5_Step ==
    \A r \in Reopeners :
        ReopenFails(r)
           => /\ UNCHANGED <<file, handles, opened, sinkOut, sinkQueue, lost, muReopen>>
              /\ muReopen # r
              /\ IsOpen(sinkOut)'

C5_AfterError ==
    \A h \in Handles : \A k \in 1..Len(handles[h].data) :
        handles[h].data[k].afterErr => handles[h].data[k].tgt = h

C5_FailedReopen == []C5_AfterError /\ [][C5_Step]_vars

\* no Reopen has succeeded, one has failed, and a record handed to the sink
\* after that failure is in the file New opened
C5_Witness ==
    /\ opened = 1
    /\ \E r \in Reopeners : reopen[r].res = "err"
    /\ IsOpen(file)
    /\ \E k \in 1..Len(handles[file].data) : handles[file].data[k].afterErr

(***************************************************************************)
(* C6: when a successful Reopen returns, the sink's target is the most     *)
(* recently opened of the handles opened by New and Reopen so far.  It is  *)
(* stated for the returns at which no other Reopen is still in progress,   *)
(* the case most favourable to the claim: a handle another Reopen has      *)
(* opened and not yet installed does not count against it.                 *)
(***************************************************************************)
C6_Step ==
    \A r \in Reopeners :
        (/\ pc[r] = "close" /\ pc'[r] = "idle"
         /\ \A q \in Reopeners \ {r} : pc[q] = "idle")
           => sinkOut' = opened' - 1

C6_LatestHandle == [][C6_Step]_vars

(***************************************************************************)
(* C7: every record is written to the handle that was the sink's target    *)
(* when it was handed over, and to no other; none is pending across a      *)
(* redirect and none is lost.  With no Reopen in progress at the hand-over *)
(* and no two Reopens overlapping, that handle is the latest one opened:   *)
(* the records logged before a Reopen are in the old file and the records  *)
(* logged after it are in the new one.                                     *)
(***************************************************************************)
C7_Rotation ==
    /\ lost = <<>>
    /\ \A k \in 1..Len(sinkQueue) : sinkQueue[k].tgt = sinkOut
    /\ \A h \in Handles : \A k \in 1..Len(handles[h].data) :
          LET rec == handles[h].data[k]
          IN  /\ rec.tgt = h
              /\ (rec.quiet /\ ~raced) => rec.last = h
    /\ \A c \in Callers : NumIn(HandedOver, call[c].id) <= 1

\* one record in the file New opened, then one Reopen, then one record in
\* the file it opened, no log call overlapping the Reopen
C7_Witness ==
    /\ ~raced
    /\ opened = 2
    /\ sinkQueue = <<>>
    /\ \A r \in Reopeners : pc[r] = "idle"
    /\ Len(handles[0].data) = 1 /\ handles[0].data[1].quiet
    /\ Len(handles[1].data) = 1 /\ handles[1].data[1].quiet
    /\ handles[0].data[1].id < handles[1].data[1].id


(***************************************************************************)
(* C8: when the cached time, the level's prefix, the payload and one more  *)
(* byte fit in the buffer, the bytes handed to the sink are the cached     *)
(* time, then the prefix of the level, then the payload, then one newline  *)
(* if and only if the payload does not end with one.                       *)
(***************************************************************************)
Prefix(level) ==
    CASE level = FatalLevel -> <<"F", "A", "T", "A", "L", ":", " ">>
      [] level = ErrorLevel -> <<"E", "R", "R", "O", "R", ":", " ">>
      [] level = WarnLevel  -> <<"W", "A", "R", "N", "I", "N", "G", ":", " ">>
      [] level = InfoLevel  -> <<"I", "N", "F", "O", ":", " ">>
      [] level = DebugLevel -> <<"D", "E", "B", "U", "G", ":", " ">>
      [] level = TraceLevel -> <<"T", "R", "A", "C", "E", ":", " ">>

EndsWithNewline(d) == d # <<>> /\ d[Len(d)] = NL

Expected(ts, level, data) ==
    ts \o Prefix(level) \o data \o (IF EndsWithNewline(data) THEN <<>> ELSE <<NL>>)

C9_EndsWithNewline ==
    \A k \in 1..Len(HandedOver) : EndsWithNewline(HandedOver[k].bytes)

(***************************************************************************)
(* C11: the indices held by log calls between receive and send and the     *)
(* indices in bufStack are disjoint, have no duplicates, and together are  *)
(* exactly 0..N-1; so at most N calls are between receive and send, and a  *)
(* call that passed the filter is blocked at the receive exactly when all  *)
(* N indices are checked out.                                              *)
(***************************************************************************)
Holders == {c \in Callers : Holding(c)}

HeldIndices == {call[c].i : c \in Holders}

PooledIndices == {bufStack[k] : k \in 1..Len(bufStack)}

C11_PoolPartition ==
    /\ HeldIndices \cap PooledIndices = {}
    /\ HeldIndices \cup PooledIndices = Indices
    /\ Cardinality(PooledIndices) = Len(bufStack)
    /\ Cardinality(HeldIndices) = Cardinality(Holders)
    /\ Cardinality(Holders) + Len(bufStack) = defaulBuffers
    /\ Cardinality(Holders) <= defaulBuffers
    /\ \A c \in Callers :
          pc[c] = "acquire"
             => (~ENABLED OutputAcquire(c) <=> Cardinality(Holders) = defaulBuffers)

\* a call that passed the filter is blocked at the receive while another call
\* holds the last index and has already handed its record to the sink
C11_Witness ==
    \E c, d \in Callers :
        /\ pc[c] = "acquire" /\ ~ENABLED OutputAcquire(c)
        /\ pc[d] = "release" /\ call[d].i \in Indices
        /\ Cardinality(Holders) = defaulBuffers

(***************************************************************************)
(* C12: Reopen closes the previous handle only after the sink has been     *)
(* redirected: a handle is closed only in a step at whose start it is no   *)
(* longer the sink's target, the sink's target is an open handle in every  *)
(* state, and no record is written to a closed handle.                     *)
(***************************************************************************)
C12_TargetOpen ==
    /\ IsOpen(sinkOut)
    /\ lost = <<>>

C12_Step ==
    \A h \in Handles :
        handles'[h].closes > handles[h].closes
           => /\ sinkOut # h
              /\ IsOpen(sinkOut)
              /\ sinkQueue = <<>> \/ \A k \in 1..Len(sinkQueue) : sinkQueue[k].tgt # h

C12_CloseAfterRedirect == []C12_TargetOpen /\ [][C12_Step]_vars

\* the file New opened has been closed by a Reopen that found a record still
\* queued in the sink, and a record handed over while that Reopen was in
\* progress is in the new file
C12_Witness ==
    /\ handles[0].closes = 1
    /\ \E k \in 1..Len(handles[0].data) : ~handles[0].data[k].quiet
    /\ \E h \in Handles \ {0} :
          /\ IsOpen(h) /\ sinkOut = h
          /\ \E k \in 1..Len(handles[h].data) : ~handles[h].data[k].quiet

(***************************************************************************)
(* C13: a record handed to the sink while a Reopen is in progress is never *)
(* lost and never in two places: it is in the sink's queue or in exactly   *)
(* one file, and that file is either the handle the logger held at the     *)
(* hand-over (pre-rotation) or the handle a Reopen in progress had opened  *)
(* (post-rotation).                                                        *)
(***************************************************************************)
InRotation(rec) == ~rec.quiet

C13_OneFile ==
    /\ \A k \in 1..Len(lost) : ~InRotation(lost[k])
    /\ \A k \in 1..Len(HandedOver) :
          InRotation(HandedOver[k]) => NumIn(HandedOver, HandedOver[k].id) = 1
    /\ \A h \in Handles : \A k \in 1..Len(handles[h].data) :
          LET rec == handles[h].data[k]
          IN  InRotation(rec) => (h = rec.pre \/ h \in rec.post)
    /\ \A c \in Callers :
          (call[c].handed = 1 /\ sinkQueue = <<>>)
             => NumIn(Written(MaxOpens), call[c].id) = 1

\* of two records handed over during one Reopen, one is in the pre-rotation
\* file and the other in the post-rotation file
C13_Witness ==
    /\ sinkQueue = <<>>
    /\ \E h, g \in Handles :
          /\ h # g
          /\ \E k \in 1..Len(handles[h].data) :
                InRotation(handles[h].data[k]) /\ h = handles[h].data[k].pre
          /\ \E k \in 1..Len(handles[g].data) :
                /\ InRotation(handles[g].data[k])
                /\ g \in handles[g].data[k].post
                /\ handles[g].data[k].pre = h

(***************************************************************************)
(* C14: no thread holds muUpdate and muReopen at the same time.  A log     *)
(* call never holds muReopen; it holds muUpdate exactly during its filter  *)
(* check and, after releasing it in between, during its read of the cached *)
(* time, so not while it waits for a buffer index and not while it calls   *)
(* Write.  muReopen is held only by a thread inside Reopen.                *)
(***************************************************************************)
C14_Locks ==
    /\ muUpdate = Free \/ muReopen = Free \/ muUpdate # muReopen
    /\ muReopen \in {Free} \cup Reopeners
    /\ \A r \in Reopeners : muReopen = r <=> pc[r] \in {"reset", "close"}
    /\ \A r \in Reopeners : muUpdate # r
    /\ \A c \in Callers :
          /\ muReopen # c
          /\ muUpdate = c <=> pc[c] \in {"filter", "compose"}
          /\ pc[c] \in {"acquire", "gettime", "write", "release"} => muUpdate # c

\* one log call reads the cached time under muUpdate while a Reopen holds
\* muReopen and the other log call waits for a buffer index
C14_Witness ==
    \E c, d \in Callers, r \in Reopeners :
        /\ pc[c] = "compose" /\ muUpdate = c
        /\ pc[d] = "acquire" /\ bufStack = <<>>
        /\ muReopen = r /\ pc[r] = "reset"

(***************************************************************************)
(* C15: with more callers than buffers and a sink whose Write and Reset    *)
(* return, under fair scheduling every log call that has started is        *)
(* eventually back from output, in particular one blocked at the receive   *)
(* from bufStack, and every SetLevel, SetTimeFormat, ticker update and     *)
(* Reopen that has started eventually completes.                           *)
(***************************************************************************)
C15_Progress ==
    /\ \A c \in Callers : []<>(pc[c] \in {"idle", "done"})
    /\ []<>(pc[Cfg] = "idle")
    /\ []<>(pc[Tick] = "idle")
    /\ \A r \in Reopeners : []<>(pc[r] = "idle")

\* one call waits for an index that the other call holds, the holder waits
\* for muUpdate, which the configuration caller holds, and a Reopen is at
\* its Reset
C15_Witness ==
    \E c, d \in Callers :
        /\ pc[c] = "acquire" /\ bufStack = <<>> /\ ~ENABLED OutputAcquire(c)
        /\ pc[d] = "gettime" /\ ~ENABLED OutputGetTime(d)
        /\ muUpdate = Cfg
        /\ pc[Usr] = "reset"

(***************************************************************************)
(* C16: SetTimeFormat(layout) stores the layout and leaves the cached time *)
(* string and the threshold as they are.  A ticker update that runs when   *)
(* the last configuration call was a returned SetTimeFormat(layout) makes  *)
(* the cached time string the tick time formatted with that layout; from   *)
(* then on, until the layout is changed, the cached string stays in that   *)
(* layout, and getTime returns the cached string.                          *)
(***************************************************************************)
InLayout(s, layout) == \E t \in 0..MaxTicks : s = Format(t, layout)

C16_Step ==
    /\ pc'[Cfg] # pc[Cfg] /\ cfg'.op = "SetTimeFormat"
          => /\ timeStr' = timeStr
             /\ currentLevel' = currentLevel
             /\ pc'[Cfg] = "idle" => timeFormat' = cfg.layout
             /\ pc'[Cfg] # "idle" => timeFormat' = timeFormat
    /\ (pc[Tick] = "store" /\ pc'[Tick] = "idle" /\ cfg.op = "SetTimeFormat")
          => /\ pc[Cfg] = "idle"
             /\ timeStr' = Format(now, cfg.layout)
    /\ (InLayout(timeStr, timeFormat) /\ timeFormat' = timeFormat)
          => InLayout(timeStr', timeFormat)
    /\ \A c \in Callers :
          (pc[c] = "compose" /\ pc'[c] # "compose") => call'[c].ts = timeStr

C16_TimeFormat == [][C16_Step]_vars

\* SetTimeFormat with the tests' layout has returned, the tick after it has
\* been stored, and of two records handed over one has the time in the
\* layout New set and the other the tick in the new layout
C16_Witness ==
    /\ cfg.op = "SetTimeFormat" /\ cfg.layout = TestLayout /\ pc[Cfg] = "idle"
    /\ now = 1 /\ pc[Tick] = "idle"
    /\ timeStr = Format(1, TestLayout)
    /\ \E c, d \in Callers :
          /\ call[c].handed = 1 /\ call[c].ts = Format(0, DefaultLayout)
          /\ call[d].handed = 1 /\ call[d].ts = Format(1, TestLayout)

(***************************************************************************)
(* C17: the timestamp of a record is the whole cached time string as it    *)
(* was when the call read it, between its filter check and its Write: the  *)
(* composed buffer and the bytes handed to the sink begin with that value  *)
(* followed by the level prefix, and a ticker update changes no buffer, no *)
(* call's timestamp and no record already handed over.                     *)
(***************************************************************************)
StartsWith(s, p) == Len(p) <= Len(s) /\ SubSeq(s, 1, Len(p)) = p

C17_Step ==
    /\ \A c \in Callers :
          /\ (pc[c] = "compose" /\ pc'[c] = "write")
                => /\ call'[c].ts = timeStr
                   /\ StartsWith(get(buffers'[call[c].i]),
                                 timeStr \o levelStrings[call[c].level])
          /\ (pc[c] = "write" /\ pc'[c] # "write")
                => /\ call'[c].rec = get(buffers[call[c].i])
                   /\ StartsWith(call'[c].rec, call[c].ts \o levelStrings[call[c].level])
                   /\ sinkQueue'[Len(sinkQueue')].bytes = call'[c].rec
          /\ pc'[c] = pc[c] => call'[c] = call[c]
    /\ pc'[Tick] # pc[Tick]
          => /\ buffers' = buffers
             /\ call' = call
             /\ sinkQueue' = sinkQueue /\ handles' = handles

C17_Whole ==
    \A k \in 1..Len(HandedOver) :
        \E t \in 0..MaxTicks, layout \in Layouts, level \in Levels :
            StartsWith(HandedOver[k].bytes, Format(t, layout) \o levelStrings[level])

Min(a, b) == IF a < b THEN a ELSE b

C18_PosInRange ==
    /\ buffers[0].pos \in 0..defaulBufferSize
    /\ DOMAIN buffers[0].buf = 1..defaulBufferSize

C18_Step ==
    LET b == buffers[0]
        b2 == buffers'[0]
        d == call'[Tester].data
        n == Min(Len(d), defaulBufferSize - b.pos)
    IN  /\ pc'[Tester] = "append"
              => /\ b2.pos = b.pos + n
                 /\ \A i \in 1..defaulBufferSize :
                       b2.buf[i] = IF i > b.pos /\ i <= b.pos + n
                                   THEN d[i - b.pos] ELSE b.buf[i]
        /\ pc'[Tester] = "clear" => (b2.pos = 0 /\ b2.buf = b.buf)
        /\ pc'[Tester] = "get"
              => /\ b2 = b
                 /\ Len(call'[Tester].rec) = b.pos
                 /\ \A i \in 1..b.pos : call'[Tester].rec[i] = b.buf[i]

C18_Buffer == []C18_PosInRange /\ [][C18_Step]_vars

\* TestBuffer: after the zeros, an append of "12" found room for the "1"
\* only, and get has returned the full buffer
C18_Witness ==
    /\ pc[Tester] = "get"
    /\ buffers[0].pos = defaulBufferSize
    /\ Len(call[Tester].rec) = defaulBufferSize
    /\ call[Tester].rec[defaulBufferSize] = "1"
    /\ call[Tester].rec[defaulBufferSize - 1] = "0"
    /\ call[Tester].rec[1] = "0"

(***************************************************************************)
(* C19: the threshold is always one of the six levels; a log call that has *)
(* passed the filter has a level with a non-empty prefix; so the buffer is *)
(* not empty when output reads its last byte (the index len-1 is in range  *)
(* and output does not panic), also with an empty cached time and an empty *)
(* payload.                                                                *)
(***************************************************************************)
PassedFilter(c) == pc[c] \in {"acquire", "gettime", "compose", "write", "release"}

C19_NeverEmpty ==
    /\ currentLevel \in Levels
    /\ \A c \in Callers :
          /\ pc[c] \notin {"unwind", "panicked"}
          /\ PassedFilter(c)
                => /\ call[c].level \in Levels
                   /\ levelStrings[call[c].level] # <<>>
          /\ pc[c] = "compose"
                => Len(get(Appended(buffers[call[c].i], timeStr,
                                    call[c].level, call[c].data))) >= 1
          /\ pc[c] \in {"write", "release"} => Len(get(buffers[call[c].i])) >= 1

\* SetLevel(255) was refused, and a Trace call with an empty payload, made
\* when the cached time was empty, handed over the prefix and a newline
C19_Witness ==
    /\ cfg.op = "SetLevel" /\ cfg.level = 255 /\ cfg.err
    /\ call["c1"].handed = 1
    /\ call["c1"].level = TraceLevel
    /\ call["c1"].ts = <<>>
    /\ call["c1"].data = <<>>
    /\ call["c1"].rec = <<"T", "R", "A", "C", "E", ":", " ", NL>>

(***************************************************************************)
(* C20: whatever the interleaving of successful and failed Reopens,        *)
(* whenever muReopen is free the logger's file is the sink's target and is *)
(* open, every other handle opened so far is either the new handle of a    *)
(* Reopen that still waits for muReopen or a replaced handle that has been *)
(* closed exactly once; so once the Reopens have returned the file is the  *)
(* only open handle.  No handle is ever closed twice.                      *)
(***************************************************************************)
Pending(h) == \E r \in Reopeners : pc[r] = "lock" /\ reopen[r].f = h

C20_Handles ==
    /\ \A h \in Handles : handles[h].closes <= 1
    /\ \A h \in Handles : h >= opened => handles[h].closes = 0
    /\ muReopen = Free
          => /\ file = sinkOut
             /\ IsOpen(file)
             /\ \A h \in 0..(opened - 1) :
                   h # file => (IF Pending(h) THEN handles[h].closes = 0
                                               ELSE handles[h].closes = 1)
    /\ (muReopen = Free /\ \A r \in Reopeners : pc[r] = "idle")
          => {h \in 0..(opened - 1) : IsOpen(h)} = {file}

\* two overlapping Reopens have returned and a later open has failed: the
\* logger holds the handle opened first of the two, and the file New opened
\* and the handle opened last have each been closed once
C20_Witness ==
    /\ muReopen = Free
    /\ \A r \in Reopeners : pc[r] = "idle"
    /\ \E r \in Reopeners : reopen[r].res = "err"
    /\ raced
    /\ opened = 3 /\ file = 1 /\ sinkOut = 1
    /\ handles[0].closes = 1 /\ handles[1].closes = 0 /\ handles[2].closes = 1

====
